---- MODULE Spec2Model ----
(***************************************************************************)
(* A model of the starsense backend: the ingestion pipeline                *)
(* (ingest.py), the repository store (db.py), the provider abstraction     *)
(* (provider.py) and the retrieval pipeline (retrieval.py).                *)
(***************************************************************************)
EXTENDS Integers, Sequences, FiniteSets, TLC

(* ------------------------------ bounds -------------------------------- *)

\* The longest star list of the synthetic source.
MaxStars == 3

\* The page size of the synthetic source.  The code asks for per_page=100
\* and takes whatever list a page holds; the source serves PageSize items.
PageSize == 2

\* The longest star list two runs share.
MaxShared == 2

Runs == {1, 2}

Min(a, b) == IF a < b THEN a ELSE b

(* ------------------------------- state -------------------------------- *)

VARIABLES
    stars,      \* the user's star list at the source: full_names, in order
    linkMode,   \* how the source answers the total-count request's Link header
    faults,     \* whether the network and the datastore may fail
    readmes,    \* the outcomes the README API may give
    overlap,    \* whether store_repository calls of different runs may overlap
    run,        \* run[r]: the locals of one fetch_and_process_user_stars call
    table,      \* the committed rows of the repositories table, in commit order
    nextId      \* the table's id sequence (RETURNING id)

ingestVars == <<stars, linkMode, faults, readmes, overlap, run, table, nextId>>

VARIABLES
    kindArg,        \* the provider_type a caller passes to create_ai_provider
    apiKey,         \* that call's api_key keyword: "absent", "None" or "sk"
    aiProviderEnv,  \* the AI_PROVIDER environment variable, or "unset"
    ollamaResp,     \* what ollama.chat answers
    made,           \* the provider instances constructed so far, by class
    netCalls,       \* the backend calls made so far
    factory,        \* a direct create_ai_provider call
    initp,          \* an initialize_ai_provider call
    chat            \* an OllamaProvider.chat_completion call

providerVars ==
    <<kindArg, apiKey, aiProviderEnv, ollamaResp, made, netCalls, factory, initp, chat>>

VARIABLES
    dbRows,     \* the rows the datastore answers the similarity query with
    gen         \* a generate_response call: search, provider, format, answer

retrievalVars == <<dbRows, gen>>

VARIABLES
    http,       \* a POST /ingest request and the handler's response to it
    ws          \* a github_username message on /ws and what was sent back

serverVars == <<http, ws>>

vars == <<ingestVars, providerVars, retrievalVars, serverVars>>

(* ----------------------------- the source ----------------------------- *)

FullNames == 1..MaxStars

\* The star lists two runs share: names are interchangeable, one order each.
SharedLists(n) == {[i \in 1..k |-> i] : k \in 0..n}

\* The star lists of at most n distinct repositories.
StarLists(n) ==
    UNION {{s \in [1..k -> FullNames] : \A i, j \in 1..k : i # j => s[i] # s[j]} : k \in 0..n}

\* response.json() of GET /users/{u}/starred?page=p&per_page=...
PageItems(p) ==
    SubSeq(stars, (p - 1) * PageSize + 1, Min(p * PageSize, Len(stars)))

\* 'next' in response.links for page p
HasNext(p) == p * PageSize < Len(stars)

\* One entry of a Link header: <url>; rel="..."; the url's &page= parameter.
LinkEntry(rel, hasPage, digits, val) ==
    [rel |-> rel, hasPage |-> hasPage, digits |-> digits, val |-> val]

NoHeader == [present |-> FALSE, links |-> <<>>]

\* response.headers.get('Link') of GET /users/{u}/starred?per_page=1: one item
\* a page, so the last page's number is the star count; a listing that fits in
\* one page carries no Link header.
LinkHeader ==
    CASE linkMode = "std" ->
            IF Len(stars) > 1
            THEN [present |-> TRUE,
                  links |-> <<LinkEntry("next", TRUE, TRUE, 2),
                              LinkEntry("last", TRUE, TRUE, Len(stars))>>]
            ELSE NoHeader
      [] linkMode = "absent" -> NoHeader
      [] linkMode = "single" ->
            [present |-> TRUE, links |-> <<LinkEntry("next", TRUE, TRUE, 2)>>]
      [] linkMode = "nopage" ->
            [present |-> TRUE,
             links |-> <<LinkEntry("next", TRUE, TRUE, 2),
                         LinkEntry("last", FALSE, FALSE, 0)>>]
      [] OTHER ->
            [present |-> TRUE,
             links |-> <<LinkEntry("next", TRUE, TRUE, 2),
                         LinkEntry("last", TRUE, FALSE, 0)>>]

LinkModes == {"std", "absent", "single", "nopage", "garbled"}

\* The parse with a default of 0 for a header it cannot read.
ParseTotalDefaulting(h) ==
    IF h.present /\ Len(h.links) >= 2 /\ h.links[2].hasPage /\ h.links[2].digits
    THEN [ok |-> TRUE, val |-> h.links[2].val]
    ELSE [ok |-> TRUE, val |-> 0]

\* int(header.split(',')[1].split('&page=')[1].split('>')[0])
ParseTotal(h) ==
    IF ~h.present THEN [ok |-> FALSE, val |-> 0]              \* None.split
    ELSE IF Len(h.links) < 2 THEN [ok |-> FALSE, val |-> 0]   \* IndexError
    ELSE IF ~h.links[2].hasPage THEN [ok |-> FALSE, val |-> 0] \* IndexError
    ELSE IF ~h.links[2].digits THEN [ok |-> FALSE, val |-> 0]  \* ValueError
    ELSE [ok |-> TRUE, val |-> h.links[2].val]

(* ------------------------------ one run ------------------------------- *)

NoCall == [full_name |-> 0, existed |-> FALSE, sawLen |-> 0, newId |-> 0,
           ret |-> 0, err |-> "none"]

NoResult == [status |-> "none", repos_processed |-> 0, repositories |-> <<>>]

\* The locals at entry (lines 25-28) and the history the claims read:
\* events is what the sink received, oplog the external calls in order,
\* fault the external-call failure that ended the run.
RunInit(p) ==
    [pc |-> p, page |-> 1, total_repos |-> 0,
     resp |-> [items |-> <<>>, next |-> FALSE], idx |-> 0,
     readme_content |-> "None", processed_repos |-> <<>>,
     events |-> <<>>, result |-> NoResult,
     conn |-> "none", txn |-> <<>>, call |-> NoCall,
     oplog |-> <<>>, fault |-> "none", evAtFault |-> 0, sink |-> "async"]

Progress(name, count, total) ==
    [kind |-> "progress", current_repo |-> name,
     processed_count |-> count, total_count |-> total]

Complete ==
    [kind |-> "COMPLETE", current_repo |-> 0, processed_count |-> 0, total_count |-> 0]

Op(op, name, st) == [op |-> op, name |-> name, st |-> st]

\* except Exception: logging.error(...); raise
Raise(rec, f) ==
    [rec EXCEPT !.pc = "raised", !.fault = f, !.evAtFault = Len(rec.events)]

CurrentRepo(rec) == rec.resp.items[rec.idx]

\* The append moved under the if: an item without README text is not counted.
AfterItemStoredOnly(rec) ==
    LET info == [full_name |-> CurrentRepo(rec), readme |-> rec.readme_content]
        done == IF rec.readme_content \in {"None", ""} THEN rec
                ELSE [rec EXCEPT !.processed_repos = Append(@, info)]
    IN  IF rec.idx < Len(rec.resp.items)
        THEN [done EXCEPT !.idx = @ + 1, !.pc = "emit"]
        ELSE IF ~rec.resp.next
             THEN [done EXCEPT !.pc = "finish"]
             ELSE [done EXCEPT !.page = @ + 1, !.pc = "fetch_page"]

\* processed_repos.append(repo_info), then the for loop's next item, or the
\* 'next' test after the page's last item.
AfterItem(rec) ==
    LET info == [full_name |-> CurrentRepo(rec), readme |-> rec.readme_content]
        done == [rec EXCEPT !.processed_repos = Append(@, info)]
    IN  IF rec.idx < Len(rec.resp.items)
        THEN [done EXCEPT !.idx = @ + 1, !.pc = "emit"]
        ELSE IF ~rec.resp.next
             THEN [done EXCEPT !.pc = "finish"]
             ELSE [done EXCEPT !.page = @ + 1, !.pc = "fetch_page"]

\* Lines 31-34: the total-count request and the parse of its Link header.
GetTotal(r) ==
    /\ run[r].pc = "start"
    /\ \/ /\ faults
          /\ run' = [run EXCEPT ![r] = Raise(@, "total")]
       \/ LET p == ParseTotal(LinkHeader)
          IN  run' = [run EXCEPT ![r] =
                        IF p.ok
                        THEN [@ EXCEPT !.total_repos = p.val, !.pc = "fetch_page"]
                        ELSE Raise(@, "metadata")]
    /\ UNCHANGED <<stars, linkMode, faults, readmes, overlap, table, nextId, providerVars, retrievalVars, serverVars>>

\* Lines 37-46: one page request; an empty page ends the loop.
FetchPage(r) ==
    /\ run[r].pc = "fetch_page"
    /\ \/ /\ faults
          /\ run' = [run EXCEPT ![r] = Raise(@, "page")]
       \/ LET items == PageItems(run[r].page)
              got == [run[r] EXCEPT !.resp = [items |-> items, next |-> HasNext(run[r].page)]]
          IN  run' = [run EXCEPT ![r] =
                        IF items = <<>>
                        THEN [got EXCEPT !.pc = "finish"]
                        ELSE [got EXCEPT !.idx = 1, !.pc = "emit"]]
    /\ UNCHANGED <<stars, linkMode, faults, readmes, overlap, table, nextId, providerVars, retrievalVars, serverVars>>

\* await send_status(ev): the sink is called with the event and what it
\* gives back is awaited. An async function gives a coroutine, which runs
\* to its end; a plain function's None cannot be awaited (TypeError), and
\* the run raises without reaching next.
AwaitSendStatus(rec, ev, next) ==
    LET sent == [rec EXCEPT !.events = Append(@, ev)]
    IN  IF rec.sink = "async" THEN [sent EXCEPT !.pc = next]
        ELSE Raise(sent, "sink")

\* Lines 48-56: the item's progress event.
SendStatus(r) ==
    /\ run[r].pc = "emit"
    /\ LET rec == run[r]
           ev == Progress(CurrentRepo(rec), Len(rec.processed_repos), rec.total_repos)
           called == [rec EXCEPT !.oplog = Append(@, Op("emit", CurrentRepo(rec), "-"))]
       IN  run' = [run EXCEPT ![r] = AwaitSendStatus(called, ev, "readme")]
    /\ UNCHANGED <<stars, linkMode, faults, readmes, overlap, table, nextId, providerVars, retrievalVars, serverVars>>

\* What the README request can come to: 200 with text, 200 with an empty
\* file, a non-200 status, a requests.RequestException, a 200 whose body
\* does not decode.
ReadmeOutcomes == {"ok", "empty", "missing", "neterr", "undecodable"}

\* fetch_readme's return value.
ReadmeContent(outcome) ==
    CASE outcome = "ok" -> "README"
      [] outcome = "empty" -> ""
      [] OTHER -> "None"

\* The test written as readme_content is not None.
TruthyNotNone(content) == content # "None"

\* Python's truth of readme_content: None and "" are false.
Truthy(content) == content \notin {"None", ""}

\* Lines 58-79 up to the store call: fetch_readme, repo_info, the if.
FetchReadme(r) ==
    /\ run[r].pc = "readme"
    /\ \E outcome \in readmes :
         LET rec == [run[r] EXCEPT
                        !.oplog = Append(@, Op("readme", CurrentRepo(run[r]), outcome)),
                        !.readme_content = ReadmeContent(outcome)]
         IN  run' = [run EXCEPT ![r] =
                       IF outcome = "undecodable"
                       THEN Raise(rec, "readme_body")
                       ELSE IF Truthy(rec.readme_content)
                            THEN [rec EXCEPT !.pc = "st_connect"]
                            ELSE AfterItem(rec)]
    /\ UNCHANGED <<stars, linkMode, faults, readmes, overlap, table, nextId, providerVars, retrievalVars, serverVars>>

\* Lines 86-93: the COMPLETE event and the aggregate result.
Finish(r) ==
    /\ run[r].pc = "finish"
    /\ LET done == AwaitSendStatus(run[r], Complete, "returned")
       IN  run' = [run EXCEPT ![r] =
                     IF done.pc = "returned"
                     THEN [done EXCEPT !.result =
                                 [status |-> "success",
                                  repos_processed |-> Len(run[r].processed_repos),
                                  repositories |-> run[r].processed_repos]]
                     ELSE done]
    /\ UNCHANGED <<stars, linkMode, faults, readmes, overlap, table, nextId, providerVars, retrievalVars, serverVars>>

(* ------------------------- store_repository --------------------------- *)

\* The lookup with its WHERE clause lost: it finds no row.
MatchingNone(name) == {}

\* The rows SELECT id FROM repositories WHERE full_name = %s sees.
Matching(name) == {i \in 1..Len(table) : table[i].full_name = name}

FirstOf(S) == CHOOSE i \in S : \A j \in S : i <= j

\* Store calls of different runs overlap only when the scheduling lets them.
StoreTurn(r) == overlap \/ \A q \in Runs \ {r} : run[q].conn # "open"

\* The failure logged and swallowed: the loop goes on with the next item.
StoreFailSwallowed(rec, f) ==
    AfterItem([rec EXCEPT !.txn = <<>>, !.conn = "closed", !.call.err = "wrapped",
                          !.fault = f, !.evAtFault = Len(rec.events)])

\* except Exception: conn.rollback(); raise Exception(...); finally: conn.close()
\* The rollback and the close themselves are taken not to fail.
StoreFail(rec, f) ==
    Raise([rec EXCEPT !.txn = <<>>, !.conn = "closed", !.call.err = "wrapped"], f)

\* A return that leaves the connection open.
StoreReturnNoClose(rec, id) ==
    AfterItem([rec EXCEPT !.call.ret = id])

\* conn.close() on a return path.
StoreReturn(rec, id) ==
    AfterItem([rec EXCEPT !.conn = "closed", !.call.ret = id])

\* Line 26: conn = get_db_connection(), outside the try.
StoreConnect(r) ==
    /\ run[r].pc = "st_connect"
    /\ StoreTurn(r)
    /\ LET name == CurrentRepo(run[r])
           rec == [run[r] EXCEPT
                      !.oplog = Append(@, Op("store", name, "-")),
                      !.call = [NoCall EXCEPT !.full_name = name,
                                              !.existed = Matching(name) # {}]]
       IN  \/ /\ faults
              /\ run' = [run EXCEPT ![r] = Raise([rec EXCEPT !.call.err = "raw"], "db_connect")]
           \/ run' = [run EXCEPT ![r] = [rec EXCEPT !.conn = "open", !.pc = "st_select"]]
    /\ UNCHANGED <<stars, linkMode, faults, readmes, overlap, table, nextId, providerVars, retrievalVars, serverVars>>

\* Lines 28-39: the existence lookup and the early return.
StoreSelect(r) ==
    /\ run[r].pc = "st_select"
    /\ LET rec == run[r]
           existing_repo == Matching(rec.call.full_name)
       IN  \/ /\ faults
              /\ run' = [run EXCEPT ![r] = StoreFail(rec, "db_select")]
           \/ run' = [run EXCEPT ![r] =
                        IF existing_repo # {}
                        THEN StoreReturn(rec, table[FirstOf(existing_repo)].id)
                        ELSE [rec EXCEPT !.call.sawLen = Len(table), !.pc = "st_insert"]]
    /\ UNCHANGED <<stars, linkMode, faults, readmes, overlap, table, nextId, providerVars, retrievalVars, serverVars>>

\* Lines 41-48: INSERT ... RETURNING id, inside the open transaction.
StoreInsert(r) ==
    /\ run[r].pc = "st_insert"
    /\ LET rec == run[r]
           row == [id |-> nextId, full_name |-> rec.call.full_name,
                   by |-> r, sawLen |-> rec.call.sawLen]
       IN  \/ /\ faults
              /\ run' = [run EXCEPT ![r] = StoreFail(rec, "db_insert")]
              /\ UNCHANGED nextId
           \/ /\ run' = [run EXCEPT ![r] =
                          [rec EXCEPT !.txn = <<row>>, !.call.newId = nextId,
                                      !.pc = "st_commit"]]
              /\ nextId' = nextId + 1
    /\ UNCHANGED <<stars, linkMode, faults, readmes, overlap, table, providerVars, retrievalVars, serverVars>>

\* Lines 50-51: conn.commit(); return repo_id.
StoreCommit(r) ==
    /\ run[r].pc = "st_commit"
    /\ LET rec == run[r]
       IN  \/ /\ faults
              /\ run' = [run EXCEPT ![r] = StoreFail(rec, "db_commit")]
              /\ UNCHANGED table
           \/ /\ run' = [run EXCEPT ![r] =
                          StoreReturn([rec EXCEPT !.txn = <<>>], rec.call.newId)]
              /\ table' = table \o rec.txn
    /\ UNCHANGED <<stars, linkMode, faults, readmes, overlap, nextId, providerVars, retrievalVars, serverVars>>

RunStep(r) ==
    \/ GetTotal(r)
    \/ FetchPage(r)
    \/ SendStatus(r)
    \/ FetchReadme(r)
    \/ Finish(r)
    \/ StoreConnect(r)
    \/ StoreSelect(r)
    \/ StoreInsert(r)
    \/ StoreCommit(r)

(* --------------------------- provider.py ------------------------------ *)

Kinds == {"openai", "OpenAI", "OPENAI", "ollama", "Ollama", "azure", "open ai", ""}

\* str.lower()
Lower(s) ==
    CASE s \in {"openai", "OpenAI", "OPENAI"} -> "openai"
      [] s \in {"ollama", "Ollama"} -> "ollama"
      [] OTHER -> s

Outcome(err, cls) == [err |-> err, cls |-> cls]

\* OpenAIProvider.__init__: the client refuses a missing credential.
OpenAIProviderNew(key) ==
    IF key = "sk" THEN Outcome("none", "OpenAIProvider") ELSE Outcome("OpenAIError", "none")

\* The factory with the local backend as its fallback.
CreateAIProviderDefaulting(provider_type, key) ==
    IF Lower(provider_type) = "openai"
    THEN IF key = "absent" THEN Outcome("ValueError", "none") ELSE OpenAIProviderNew(key)
    ELSE Outcome("none", "OllamaProvider")

\* create_ai_provider(provider_type, **kwargs)
CreateAIProvider(provider_type, key) ==
    IF Lower(provider_type) = "openai"
    THEN IF key = "absent" THEN Outcome("ValueError", "none") ELSE OpenAIProviderNew(key)
    ELSE IF Lower(provider_type) = "ollama"
         THEN Outcome("none", "OllamaProvider")
         ELSE Outcome("ValueError", "none")

\* initialize_ai_provider(): AI_PROVIDER defaults to "ollama"; OPENAI_API_KEY
\* is passed as it is read, None when unset.
InitializeAIProvider(env, key) ==
    LET provider_type == Lower(IF env = "unset" THEN "ollama" ELSE env)
    IN  IF provider_type = "openai"
        THEN CreateAIProvider("openai", IF key = "absent" THEN "None" ELSE key)
        ELSE IF provider_type = "ollama"
             THEN CreateAIProvider("ollama", "absent")
             ELSE Outcome("ValueError", "none")

Constructed(o) == IF o.cls = "none" THEN made ELSE Append(made, o.cls)

CallInit == [pc |-> "ready", err |-> "none", cls |-> "none"]

CreateProvider ==
    /\ factory.pc = "ready"
    /\ LET o == CreateAIProvider(kindArg, apiKey)
       IN  /\ factory' = [pc |-> "done", err |-> o.err, cls |-> o.cls]
           /\ made' = Constructed(o)
    /\ UNCHANGED <<kindArg, apiKey, aiProviderEnv, ollamaResp, netCalls, initp, chat, ingestVars, retrievalVars, serverVars>>

InitializeProvider ==
    /\ initp.pc = "ready"
    /\ LET o == InitializeAIProvider(aiProviderEnv, apiKey)
       IN  /\ initp' = [pc |-> "done", err |-> o.err, cls |-> o.cls]
           /\ made' = Constructed(o)
    /\ UNCHANGED <<kindArg, apiKey, aiProviderEnv, ollamaResp, netCalls, factory, chat, ingestVars, retrievalVars, serverVars>>

\* A string as its sequence of tokens; " " is whitespace.
Strip(t) ==
    LET keep == {i \in 1..Len(t) : t[i] # " "}
    IN  IF keep = {} THEN <<>>
        ELSE SubSeq(t, CHOOSE i \in keep : \A j \in keep : i <= j,
                       CHOOSE i \in keep : \A j \in keep : j <= i)

\* A content value of a response: the key may be absent, or hold None.
Absent == [has |-> FALSE, none |-> FALSE, text |-> <<>>]
PyNone == [has |-> TRUE, none |-> TRUE, text |-> <<>>]
Text(t) == [has |-> TRUE, none |-> FALSE, text |-> t]

Contents == {Absent, PyNone, Text(<<>>), Text(<<"hi">>), Text(<<" ", "hi", " ">>)}

\* What ollama.chat can answer: a dict with or without a 'message' dict and
\* with or without a top-level 'content', or something that is no dict.
OllamaResponses ==
    [isDict : BOOLEAN, hasMessage : BOOLEAN, message : Contents, content : Contents]

\* not x, for a content value read with .get('content', '')
Falsy(c) == ~c.has \/ c.none \/ c.text = <<>>

ChatOutcome(err, text) == [err |-> err, assistant |-> text]

\* Lines 120-133 of OllamaProvider.chat_completion: the response handling.
NormalizeOllama(response) ==
    IF response.isDict /\ response.hasMessage
    THEN LET first == response.message
             message_content ==
                 IF Falsy(first) /\ response.content.has
                 THEN response.content
                 ELSE IF first.has THEN first ELSE Text(<<>>)
         IN  IF message_content.none
             THEN ChatOutcome("AttributeError", <<>>)   \* None.strip()
             ELSE ChatOutcome("none", Strip(message_content.text))
    ELSE ChatOutcome("ValueError", <<>>)   \* Invalid response structure from Ollama

\* chat_completion on an OllamaProvider instance: one ollama.chat call.
OllamaChat ==
    /\ chat.pc = "ready"
    /\ \E i \in 1..Len(made) : made[i] = "OllamaProvider"
    /\ netCalls' = netCalls + 1
    /\ LET o == NormalizeOllama(ollamaResp)
       IN  chat' = [pc |-> "done", err |-> o.err, assistant |-> o.assistant]
    /\ UNCHANGED <<kindArg, apiKey, aiProviderEnv, ollamaResp, made, factory, initp, ingestVars, retrievalVars, serverVars>>

(* --------------------------- retrieval.py ----------------------------- *)

\* The most rows a search answers with in the model.
MaxRows == 2

Markers == {"name:", "url:", "content:"}

Without(t, drop) == SelectSeq(t, LAMBDA x : x \notin drop)

\* CONCAT('name: ', name, ' url: ', url, ' content: ', description), db.py line 90
Concat(name, url, description) ==
    <<"name:", " ">> \o name \o <<" ", "url:", " ">> \o url
        \o <<" ", "content:", " ">> \o description

\* A row as the query returns it, (combined_text, similarity_score), with the
\* fields it was built from.  The score is in thousandths.
Row(name, url, description, drop, score) ==
    [combined_text |-> Without(Concat(name, url, description), drop),
     score |-> score,
     name |-> name, url |-> url, description |-> description, drop |-> drop]

RowNames == {<<"A">>, <<"B">>}
RowDescriptions == {<<"Z">>, <<"see", " ", "url:">>}
RowDrops == {{}, {"name:"}, {"url:"}, {"content:"}}
RowScores == {873, 40}

Rows ==
    {Row(n, <<"U">>, d, x, s) : n \in RowNames, d \in RowDescriptions,
                                 x \in RowDrops, s \in RowScores}

RowLists(n) == UNION {[1..k -> Rows] : k \in 0..n}

\* str.split(sep, 1): the text around the first sep, or the text alone.
Split1(t, sep) ==
    LET at == {i \in 1..Len(t) : t[i] = sep}
    IN  IF at = {} THEN <<t>>
        ELSE LET i == CHOOSE k \in at : \A j \in at : k <= j
             IN  <<SubSeq(t, 1, i - 1), SubSeq(t, i + 1, Len(t))>>

\* f"{score*100:.1f}" of a score in thousandths
Percent(score) == [whole |-> score \div 10, tenth |-> score % 10]

Line(kind, name, url, description, pct) ==
    [kind |-> kind, name |-> name, url |-> url, description |-> description, pct |-> pct]

NoPct == [whole |-> 0, tenth |-> 0]

\* Lines 24-30 of format_repo_context: the three parts of one entry, or the
\* IndexError of a [1] on a split that found no marker.
ParseEntry(repo) ==
    LET combined_text == repo.combined_text
        byName == Split1(combined_text, "name:")
        byUrl == Split1(combined_text, "url:")
        byContent == Split1(combined_text, "content:")
    IN  IF Len(byName) < 2 \/ Len(byUrl) < 2 \/ Len(byContent) < 2
        THEN [err |-> "IndexError", line |-> Line("none", <<>>, <<>>, <<>>, NoPct)]
        ELSE [err |-> "none",
              line |-> Line("repo",
                            Strip(Split1(byName[2], "url:")[1]),
                            Strip(Split1(byUrl[2], "content:")[1]),
                            Strip(byContent[2]),
                            Percent(repo.score))]

\* An except clause that names another exception.
CaughtNothing(err) == FALSE

\* except IndexError: logging.warning(...)
Caught(err) == err = "IndexError"

RECURSIVE FormatEntries(_)
FormatEntries(repos) ==
    IF repos = <<>> THEN [err |-> "none", lines |-> <<>>]
    ELSE LET e == ParseEntry(Head(repos))
             rest == FormatEntries(Tail(repos))
         IN  IF e.err # "none" /\ ~Caught(e.err)
             THEN [err |-> e.err, lines |-> <<>>]
             ELSE IF rest.err # "none" THEN rest
             ELSE [err |-> "none",
                   lines |-> IF e.err = "none" THEN <<e.line>> \o rest.lines
                             ELSE rest.lines]

\* format_repo_context(repos, query): the header, the entries, the note.
FormatRepoContext(repos) ==
    LET body == FormatEntries(repos)
    IN  IF body.err # "none" THEN [err |-> body.err, context |-> <<>>]
        ELSE [err |-> "none",
              context |-> <<Line("header", <<>>, <<>>, <<>>, NoPct)>> \o body.lines
                          \o <<Line("note", <<>>, <<>>, <<>>, NoPct)>>]

\* What generate_response has returned: nothing yet, the rendered document
\* (a str) or the provider's ChatResponse with its assistant text.
NoReturn == [type |-> "none", document |-> <<>>, assistant |-> <<>>]

GenInit(p) ==
    [pc |-> p, conn |-> "none", similar_repos |-> <<>>, err |-> "none",
     repo_context |-> <<>>, format_only |-> FALSE, provider |-> "none",
     ret |-> NoReturn]

\* search_for_repos, line 63: conn = get_db_connection(), outside the try.
SearchConnect ==
    /\ gen.pc = "search"
    /\ \/ /\ faults
          /\ gen' = [gen EXCEPT !.pc = "raised", !.err = "raw"]
       \/ gen' = [gen EXCEPT !.pc = "sr_execute", !.conn = "open"]
    /\ UNCHANGED <<dbRows, ingestVars, providerVars, serverVars>>

\* search_for_repos, lines 64-100: the query; finally: conn.close().
SearchExecute ==
    /\ gen.pc = "sr_execute"
    /\ \/ /\ faults
          /\ gen' = [gen EXCEPT !.pc = "raised", !.err = "raw", !.conn = "closed"]
       \/ gen' = [gen EXCEPT !.pc = "provider", !.similar_repos = dbRows,
                             !.conn = "closed"]
    /\ UNCHANGED <<dbRows, ingestVars, providerVars, serverVars>>

\* generate_response, line 49: provider = initialize_ai_provider()
GenProvider ==
    /\ gen.pc = "provider"
    /\ LET o == InitializeAIProvider(aiProviderEnv, apiKey)
       IN  /\ made' = Constructed(o)
           /\ gen' = IF o.err = "none"
                      THEN [gen EXCEPT !.pc = "format", !.provider = o.cls]
                      ELSE [gen EXCEPT !.pc = "raised", !.err = o.err]
    /\ UNCHANGED <<kindArg, apiKey, aiProviderEnv, ollamaResp, netCalls, factory, initp, chat, dbRows, ingestVars, serverVars>>

\* generate_response, line 51: repo_context = format_repo_context(...)
FormatContext ==
    /\ gen.pc = "format"
    /\ LET o == FormatRepoContext(gen.similar_repos)
       IN  gen' = IF o.err = "none"
                  THEN [gen EXCEPT !.pc = "formatted", !.repo_context = o.context]
                  ELSE [gen EXCEPT !.pc = "raised", !.err = o.err]
    /\ UNCHANGED <<dbRows, ingestVars, providerVars, serverVars>>

\* generate_response, lines 54-55: if format_only: return repo_context
ReturnContext ==
    /\ gen.pc = "formatted"
    /\ gen.format_only
    /\ gen' = [gen EXCEPT !.pc = "returned",
                          !.ret = [type |-> "str", document |-> gen.repo_context,
                                   assistant |-> <<>>]]
    /\ UNCHANGED <<dbRows, ingestVars, providerVars, serverVars>>

\* Lines 72-75 of OpenAIProvider.chat_completion:
\* response.choices[0].message.content.strip()
NormalizeOpenAI(content) ==
    IF content.none THEN ChatOutcome("AttributeError", <<>>)   \* None.strip()
    ELSE ChatOutcome("none", Strip(content.text))

\* generate_response, lines 76-84: response = await provider.chat_completion(
\* ...); return response. The value returned is the ChatResponse itself.
ChatAndReturn ==
    /\ gen.pc = "formatted"
    /\ ~gen.format_only
    /\ netCalls' = netCalls + 1
    /\ \/ /\ faults
          /\ gen' = [gen EXCEPT !.pc = "raised", !.err = "ConnectionError"]
       \/ \E content \in Contents \ {Absent} :
             LET o == IF gen.provider = "OllamaProvider"
                      THEN NormalizeOllama(ollamaResp)
                      ELSE NormalizeOpenAI(content)
             IN  gen' = IF o.err = "none"
                        THEN [gen EXCEPT !.pc = "returned",
                                         !.ret = [type |-> "ChatResponse",
                                                  document |-> <<>>,
                                                  assistant |-> o.assistant]]
                        ELSE [gen EXCEPT !.pc = "raised", !.err = o.err]
    /\ UNCHANGED <<kindArg, apiKey, aiProviderEnv, ollamaResp, made, factory, initp, chat, dbRows, ingestVars, serverVars>>

(* ----------------------------- server.py ------------------------------ *)

\* The run a POST /ingest request starts, and the run a /ws message starts.
PostRun == 1
WsRun == 2

Usernames == {"", "simonw"}

RequestInit(p, name) == [pc |-> p, github_username |-> name, status_code |-> 0]

SocketInit(p) == [pc |-> p, sent |-> <<>>]

Ended(r) == run[r].pc \in {"returned", "raised"}

\* ingest_stars, lines 59-69: 400 for an empty username; otherwise the
\* pipeline is called with lambda x: None as its send_status.
IngestStars ==
    /\ http.pc = "received"
    /\ IF http.github_username = ""
       THEN /\ http' = [http EXCEPT !.pc = "responded", !.status_code = 400]
            /\ UNCHANGED run
       ELSE /\ http' = [http EXCEPT !.pc = "running"]
            /\ run' = [run EXCEPT ![PostRun] = [RunInit("start") EXCEPT !.sink = "noop"]]
    /\ UNCHANGED <<stars, linkMode, faults, readmes, overlap, table, nextId, providerVars, retrievalVars, ws>>

\* ingest_stars, lines 70-75: 201 with the result, or 500 on any exception.
IngestRespond ==
    /\ http.pc = "running"
    /\ Ended(PostRun)
    /\ http' = [http EXCEPT !.pc = "responded",
                            !.status_code = IF run[PostRun].pc = "returned" THEN 201 ELSE 500]
    /\ UNCHANGED <<ingestVars, providerVars, retrievalVars, ws>>

\* process_github_stars, lines 48-53: the async send_status over the
\* socket, the FETCHING_REPOS status, the call of the pipeline.
ProcessGithubStars ==
    /\ ws.pc = "received"
    /\ ws' = [ws EXCEPT !.pc = "running", !.sent = Append(@, "FETCHING_REPOS")]
    /\ run' = [run EXCEPT ![WsRun] = RunInit("start")]
    /\ UNCHANGED <<stars, linkMode, faults, readmes, overlap, table, nextId, providerVars, retrievalVars, http>>

\* process_github_stars, lines 54-57: the result, or the error, is sent.
ProcessRespond ==
    /\ ws.pc = "running"
    /\ Ended(WsRun)
    /\ ws' = [ws EXCEPT !.pc = "sent",
                        !.sent = Append(@, IF run[WsRun].pc = "returned" THEN "result"
                                           ELSE "error")]
    /\ UNCHANGED <<ingestVars, providerVars, retrievalVars, http>>

(* --------------------------- specifications --------------------------- *)

ServerIdle ==
    /\ http = RequestInit("off", "")
    /\ ws = SocketInit("off")


\* One ingestion run against every source and every failure.
IngestInit(lists, modes, f, outcomes, ov, second) ==
    /\ stars \in lists
    /\ linkMode \in modes
    /\ faults = f
    /\ readmes = outcomes
    /\ overlap = ov
    /\ run = [r \in Runs |-> IF r = 1 THEN RunInit("start") ELSE RunInit(second)]
    /\ table = <<>>
    /\ nextId = 1

IngestIdle == IngestInit({<<>>}, {"std"}, TRUE, ReadmeOutcomes, FALSE, "off")

ProviderInit(kinds, keys, envs, resps) ==
    /\ kindArg \in kinds
    /\ apiKey \in keys
    /\ aiProviderEnv \in envs
    /\ ollamaResp \in resps
    /\ made = <<>>
    /\ netCalls = 0
    /\ factory = CallInit
    /\ initp = CallInit
    /\ chat = [pc |-> "ready", err |-> "none", assistant |-> <<>>]

ProviderIdle ==
    ProviderInit({"ollama"}, {"absent"}, {"unset"},
                 {[isDict |-> TRUE, hasMessage |-> TRUE,
                   message |-> Text(<<"hi">>), content |-> Absent]})

RetrievalInit(rows, p) ==
    /\ dbRows \in rows
    /\ gen = GenInit(p)

\* One ingestion run against every source and every failure, beside one search.
Init ==
    /\ ServerIdle
    /\ IngestInit(StarLists(MaxStars), LinkModes, TRUE, ReadmeOutcomes, FALSE, "off")
    /\ ProviderIdle
    /\ RetrievalInit(RowLists(0), "search")

Next ==
    \/ \E r \in Runs : RunStep(r)
    \/ SearchConnect
    \/ SearchExecute

Spec == Init /\ [][Next]_vars

\* Two ingestion runs of the same user whose store calls do not overlap.
SeqInit ==
    /\ ServerIdle
    /\ IngestInit(SharedLists(MaxShared), {"std"}, TRUE, ReadmeOutcomes, FALSE, "start")
    /\ ProviderIdle
    /\ RetrievalInit(RowLists(0), "off")

RunsNext == \E r \in Runs : RunStep(r)

SpecSeq == SeqInit /\ [][RunsNext]_vars

\* Two ingestion runs of the same user, every step interleaved.
ConcInit ==
    /\ ServerIdle
    /\ IngestInit(SharedLists(MaxShared), {"std"}, FALSE, {"ok", "missing"}, TRUE, "start")
    /\ ProviderIdle
    /\ RetrievalInit(RowLists(0), "off")

SpecConc == ConcInit /\ [][RunsNext]_vars

\* The provider factories and the local backend's response handling, on
\* every kind string, credential and response shape.
ProvInit ==
    /\ ServerIdle
    /\ IngestIdle
    /\ ProviderInit(Kinds, {"absent", "None", "sk"}, Kinds \cup {"unset"}, OllamaResponses)
    /\ RetrievalInit(RowLists(0), "off")

ProviderNext ==
    \/ CreateProvider
    \/ InitializeProvider
    \/ OllamaChat

SpecProvider == ProvInit /\ [][ProviderNext]_vars

\* A search and the formatting of its rows, on every list of rows.
FormatInit ==
    /\ ServerIdle
    /\ IngestIdle
    /\ ProviderIdle
    /\ RetrievalInit(RowLists(MaxRows), "search")

FormatNext ==
    \/ SearchConnect
    \/ SearchExecute
    \/ GenProvider
    \/ FormatContext

SpecFormat == FormatInit /\ [][FormatNext]_vars

\* What the local backend answers in a call of generate_response.
GenerateResponses == {r \in OllamaResponses : r.content = Absent}

\* generate_response in both modes, with every configured backend, every
\* answer of the backend and every failure of the store and the network.
GenerateInit ==
    /\ ServerIdle
    /\ IngestIdle
    /\ ProviderInit({"ollama"}, {"absent", "None", "sk"}, {"unset", "openai", "azure"},
                    GenerateResponses)
    /\ dbRows \in RowLists(1)
    /\ gen \in {[GenInit("search") EXCEPT !.format_only = b] : b \in BOOLEAN}

GenerateNext ==
    \/ SearchConnect
    \/ SearchExecute
    \/ GenProvider
    \/ FormatContext
    \/ ReturnContext
    \/ ChatAndReturn

SpecGenerate == GenerateInit /\ [][GenerateNext]_vars

\* A POST /ingest request beside a /ws message for the same user.
ServerInit ==
    /\ stars \in StarLists(MaxStars)
    /\ linkMode \in {"std", "absent"}
    /\ faults = TRUE
    /\ readmes = {"ok", "missing"}
    /\ overlap = FALSE
    /\ run = [r \in Runs |-> RunInit("off")]
    /\ table = <<>>
    /\ nextId = 1
    /\ ProviderIdle
    /\ RetrievalInit(RowLists(0), "off")
    /\ http \in {RequestInit("received", name) : name \in Usernames}
    /\ ws = SocketInit("received")

ServerNext ==
    \/ IngestStars
    \/ IngestRespond
    \/ ProcessGithubStars
    \/ ProcessRespond
    \/ \E r \in Runs : RunStep(r)

SpecServer == ServerInit /\ [][ServerNext]_vars

(* ------------------------------ properties ---------------------------- *)

Active == {r \in Runs : run[r].pc # "off"}

ProgressEvents(r) == SelectSeq(run[r].events, LAMBDA e : e.kind = "progress")

CompleteEvents(r) == SelectSeq(run[r].events, LAMBDA e : e.kind = "COMPLETE")

\* The calls of one kind a run made for one repository.
Calls(r, op, name) ==
    {i \in 1..Len(run[r].oplog) : run[r].oplog[i].op = op /\ run[r].oplog[i].name = name}

ReadmeCalls(r, st) ==
    {i \in 1..Len(run[r].oplog) : run[r].oplog[i].op = "readme" /\ run[r].oplog[i].st = st}

NoDuplicate ==
    \A i, j \in 1..Len(table) : table[i].full_name = table[j].full_name => i = j

\* A store call that came back with an id.
Returned(r) == run[r].call.full_name # 0 /\ run[r].call.ret # 0

\* C1: when store_repository calls do not overlap, a call whose full_name
\* already has a row inserts nothing and returns that row's id, and the
\* table never holds two rows of one full_name: a second run over the same
\* star list adds no row for a name that is already there.
C1_SequentialIdempotence ==
    /\ NoDuplicate
    /\ \A r \in Active :
         LET c == run[r].call
         IN  /\ c.existed => c.newId = 0 /\ run[r].txn = <<>>
             /\ Returned(r) =>
                  \E i \in 1..Len(table) :
                     /\ table[i].full_name = c.full_name
                     /\ table[i].id = c.ret

\* Both runs returned, the second having been handed the id of a row the
\* first one inserted.
C1_Witness ==
    /\ run[1].pc = "returned"
    /\ run[2].pc = "returned"
    /\ Len(table) = Len(stars)
    /\ \A i \in 1..Len(table) : table[i].by = 1
    /\ run[2].call.existed
    /\ Returned(2)
    /\ \A k \in 1..Len(run[2].processed_repos) : run[2].processed_repos[k].readme = "README"

\* An external call of the run failed: a failure that ended it, or a README
\* request that raised.
ExternalFailure(r) ==
    \/ run[r].fault \notin {"none", "metadata", "sink"}
    \/ ReadmeCalls(r, "neterr") # {}

\* The events a complete run delivers for the star list.
ExpectedEvents(total) ==
    [k \in 1..Len(stars) + 1 |->
        IF k <= Len(stars) THEN Progress(stars[k], k - 1, total) ELSE Complete]

\* C2: for a star list of N >= 1 items over P >= 1 pages and no failing
\* external call, the run does not raise, and when it has returned the sink
\* holds the N progress events in source order and then one COMPLETE event.
C2_PaginationCompleteness ==
    \A r \in Active :
        (Len(stars) >= 1 /\ linkMode = "std" /\ ~ExternalFailure(r)) =>
            /\ run[r].pc # "raised"
            /\ run[r].pc = "returned" =>
                 /\ run[r].events = ExpectedEvents(run[r].total_repos)
                 /\ run[r].result.status = "success"

\* The store calls an item must have seen once its README request is behind
\* it: the run is past the point where it would make the call.
PastStore(r, i) ==
    ~(i = Len(run[r].oplog) /\ run[r].pc = "st_connect")

InProcessed(r, name) ==
    \E k \in 1..Len(run[r].processed_repos) : run[r].processed_repos[k].full_name = name

InResult(r, name) ==
    /\ \E k \in 1..Len(run[r].result.repositories) :
          run[r].result.repositories[k].full_name = name
    /\ run[r].result.repos_processed = Len(run[r].result.repositories)

\* What holds of an item whose README request came back without text.
SkippedItem(r, i) ==
    LET name == run[r].oplog[i].name
    IN  /\ i > 1 /\ run[r].oplog[i - 1] = Op("emit", name, "-")
        /\ Calls(r, "store", name) = {}
        /\ InProcessed(r, name)
        /\ run[r].pc = "returned" => InResult(r, name)

StoredOnce(r, i) ==
    PastStore(r, i) => Cardinality(Calls(r, "store", run[r].oplog[i].name)) = 1

\* C3 as stated: an item whose README request returns a non-success status
\* is announced, counted and returned but not stored, and every item whose
\* README is present is passed to the Store exactly once.
C3_AsStated ==
    \A r \in Active :
        /\ \A i \in ReadmeCalls(r, "missing") : SkippedItem(r, i)
        /\ \A i \in ReadmeCalls(r, "ok") \cup ReadmeCalls(r, "empty") : StoredOnce(r, i)

\* C3, amended: an item whose README request returns a non-success status,
\* or a README that is empty, is announced, counted and returned but not
\* stored; every item whose README has text is passed to the Store exactly
\* once.
C3_ReadmeAbsenceNonFatal ==
    \A r \in Active :
        /\ \A i \in ReadmeCalls(r, "missing") \cup ReadmeCalls(r, "empty") : SkippedItem(r, i)
        /\ \A i \in ReadmeCalls(r, "ok") : StoredOnce(r, i)

\* A run that returned after an item without README, an empty README and a
\* stored item.
C3_Witness ==
    /\ run[1].pc = "returned"
    /\ ReadmeCalls(1, "missing") # {}
    /\ ReadmeCalls(1, "empty") # {}
    /\ ReadmeCalls(1, "ok") # {}
    /\ Len(table) = 1

HardFaults == {"total", "page", "db_connect", "db_select", "db_insert", "db_commit"}

\* C4: once the total-count request, a page request or a store call has
\* failed, the run has raised: it has no result, the sink holds no COMPLETE
\* event and no event newer than the failure.
C4_AbortPolicy ==
    \A r \in Active :
        run[r].fault \in HardFaults =>
            /\ run[r].pc = "raised"
            /\ run[r].result.status = "none"
            /\ CompleteEvents(r) = <<>>
            /\ Len(run[r].events) = run[r].evAtFault

\* A store call failed at its commit after an earlier item had been stored.
C4_Witness ==
    /\ run[1].fault = "db_commit"
    /\ Len(table) >= 1
    /\ Len(run[1].events) >= 2

\* The external calls of a run come item by item: emit, README, store.
OplogInOrder(r) ==
    LET log == run[r].oplog
    IN  \A i \in 1..Len(log) :
           CASE log[i].op = "emit" ->
                   i = 1 \/ (log[i - 1].op \in {"readme", "store"}
                             /\ log[i - 1].name # log[i].name)
             [] log[i].op = "readme" ->
                   i > 1 /\ log[i - 1] = Op("emit", log[i].name, "-")
             [] OTHER ->
                   i > 1 /\ log[i - 1].op = "readme" /\ log[i - 1].name = log[i].name

\* A store call of the run is still open, or its item is not yet counted.
ItemsDone(r) ==
    LET emitted == Len(ProgressEvents(r))
        counted == Len(run[r].processed_repos)
    IN  IF run[r].pc \in {"readme", "st_connect", "st_select", "st_insert", "st_commit"}
        THEN emitted = counted + 1
        ELSE run[r].pc # "raised" => emitted = counted

\* C5: in one run the k-th progress event comes before item k's README
\* request and store call, which are over before event k+1; the k-th event
\* carries processed_count k-1 and every event the same total_count.
C5_PerItemOrdering ==
    \A r \in Active :
        /\ OplogInOrder(r)
        /\ ItemsDone(r)
        /\ \A k \in 1..Len(ProgressEvents(r)) :
              /\ ProgressEvents(r)[k].processed_count = k - 1
              /\ ProgressEvents(r)[k].total_count = run[r].total_repos
              /\ ProgressEvents(r)[k].current_repo = stars[k]
        /\ \A k \in 1..Len(run[r].events) :
              run[r].events[k].kind = "COMPLETE" => k = Len(run[r].events)

\* The third event of a run whose first item was stored and whose second
\* had no README.
C5_Witness ==
    /\ Len(ProgressEvents(1)) = 3
    /\ Calls(1, "store", stars[1]) # {}
    /\ Calls(1, "store", stars[2]) = {}
    /\ run[1].pc = "readme"

InStore == {"st_select", "st_insert", "st_commit"}

C7_CheckThenInsertRace ==
    \A i, j \in 1..Len(table) :
        (i < j /\ table[i].full_name = table[j].full_name) =>
            /\ table[j].sawLen < i
            /\ table[i].by # table[j].by

\* The table ends with two rows of one full_name.
C7_Witness ==
    /\ \E i, j \in 1..Len(table) : i < j /\ table[i].full_name = table[j].full_name
    /\ \A r \in Runs : run[r].pc = "returned"

ShapeMessage(resp) ==
    /\ resp.isDict /\ resp.hasMessage
    /\ resp.message.has /\ ~resp.message.none
    /\ ~resp.content.has

ShapeTopLevel(resp) ==
    /\ resp.isDict /\ ~resp.hasMessage
    /\ resp.content.has /\ ~resp.content.none

ShapeNeither(resp) ==
    \/ ~resp.isDict
    \/ ~resp.hasMessage /\ ~resp.content.has

\* C8: the local backend's chat path turns {message: {content: C}} and
\* {content: C} alike into {assistant: C stripped}, and raises the invalid
\* response structure error when the response has neither shape.
C8_ResponseNormalization ==
    chat.pc = "done" =>
        /\ ShapeMessage(ollamaResp) =>
              chat.err = "none" /\ chat.assistant = Strip(ollamaResp.message.text)
        /\ ShapeTopLevel(ollamaResp) =>
              chat.err = "none" /\ chat.assistant = Strip(ollamaResp.content.text)
        /\ ShapeNeither(ollamaResp) => chat.err = "ValueError"

KnownSpellings == {"openai", "OpenAI", "OPENAI", "ollama", "Ollama"}

MadeBy(call) == IF call.pc = "done" /\ call.cls # "none" THEN 1 ELSE 0

\* C9: create_ai_provider with a kind that is neither openai nor ollama in
\* any case, and initialize_ai_provider with such an AI_PROVIDER, raise the
\* configuration error; no instance is constructed by the call and no
\* backend call is made without an instance.
C9_UnknownProviderKind ==
    /\ factory.pc = "done" /\ kindArg \notin KnownSpellings =>
          factory.err = "ValueError" /\ factory.cls = "none"
    /\ initp.pc = "done" /\ aiProviderEnv \notin KnownSpellings \cup {"unset"} =>
          initp.err = "ValueError" /\ initp.cls = "none"
    /\ Len(made) = MadeBy(factory) + MadeBy(initp)
    /\ made = <<>> => netCalls = 0

\* Both factories refused an unknown kind.
C9_Witness ==
    /\ factory.pc = "done" /\ kindArg = "azure" /\ factory.err = "ValueError"
    /\ initp.pc = "done" /\ aiProviderEnv = "open ai" /\ initp.err = "ValueError"
    /\ made = <<>>

HasAllMarkers(row) ==
    \A m \in Markers : \E i \in 1..Len(row.combined_text) : row.combined_text[i] = m

Surviving(rows) == SelectSeq(rows, HasAllMarkers)

\* C10: format_repo_context does not raise on a result that lacks a marker
\* and gives it no line; the other results have one line each, in the order
\* of the input, '[name](url) - description' with their relevance.
C10_MalformedResultTolerance ==
    /\ gen.pc = "raised" => gen.err = "raw"
    /\ gen.pc = "formatted" =>
          LET kept == Surviving(gen.similar_repos)
              out == gen.repo_context
          IN  /\ Len(out) = Len(kept) + 2
              /\ out[1].kind = "header"
              /\ out[Len(out)].kind = "note"
              /\ \A k \in 1..Len(kept) :
                    /\ out[k + 1].kind = "repo"
                    /\ out[k + 1].pct = Percent(kept[k].score)
                    /\ kept[k].drop = {} =>
                          /\ out[k + 1].name = kept[k].name
                          /\ out[k + 1].url = kept[k].url
                          /\ out[k + 1].description = kept[k].description

\* A result without its url: marker before a well-formed one.
C10_Witness ==
    /\ gen.pc = "formatted"
    /\ Len(gen.similar_repos) = 2
    /\ gen.similar_repos[1].drop = {"url:"}
    /\ ~HasAllMarkers(gen.similar_repos[1])
    /\ gen.similar_repos[2].drop = {}
    /\ Len(gen.repo_context) = 3
    /\ gen.repo_context[2].name = gen.similar_repos[2].name

StoreCalls(r) == {i \in 1..Len(run[r].oplog) : run[r].oplog[i].op = "store"}

AllReadmeCalls(r) == {i \in 1..Len(run[r].oplog) : run[r].oplog[i].op = "readme"}

\* C12 as stated: the repos_processed of a successful run equals the number
\* of its items whose README was present, the items passed to the Store.
C12_AsStated ==
    \A r \in Active :
        run[r].result.status = "success" =>
            run[r].result.repos_processed = Cardinality(StoreCalls(r))

\* C12, amended: the repos_processed of a successful run equals the number
\* of items of the run, with or without README: the length of the returned
\* repositories list and the number of README requests made, which is at
\* least the number of items passed to the Store.
C12_ReposProcessedCount ==
    \A r \in Active :
        run[r].result.status = "success" =>
            /\ run[r].result.repos_processed = Len(stars)
            /\ run[r].result.repos_processed = Len(run[r].result.repositories)
            /\ run[r].result.repos_processed = Cardinality(AllReadmeCalls(r))
            /\ run[r].result.repos_processed >= Cardinality(StoreCalls(r))

\* A successful run that counted three items and stored one.
C12_Witness ==
    /\ run[1].result.status = "success"
    /\ run[1].result.repos_processed = 3
    /\ Cardinality(StoreCalls(1)) = 1
    /\ ReadmeCalls(1, "missing") # {}

\* C13: a run in which a network error occurred at the star-list API, the
\* README API or the datastore raises and returns no success result; a
\* README request that raised is not taken for an absent README.
C13_FailuresNotSwallowed ==
    \A r \in Active :
        ExternalFailure(r) =>
            /\ run[r].result.status # "success"
            /\ run[r].pc # "returned"

\* The Link header names no last page with a number.
NoLastPage(h) ==
    \/ ~h.present
    \/ ~\E i \in 1..Len(h.links) :
          h.links[i].rel = "last" /\ h.links[i].hasPage /\ h.links[i].digits

\* C14: when the total-count response has no Link header, or one without a
\* parsable last-page number, the run raises before any work: no progress
\* event, no README request, no store call, no row, no result, and no
\* total put in the missing one's place.
C14_MetadataPrecondition ==
    \A r \in Active :
        NoLastPage(LinkHeader) =>
            /\ run[r].pc \in {"start", "raised"}
            /\ run[r].pc = "raised" => run[r].fault \in {"metadata", "total"}
            /\ run[r].events = <<>>
            /\ run[r].oplog = <<>>
            /\ run[r].result.status = "none"
            /\ run[r].total_repos = 0
            /\ run[r].page = 1
            /\ \A i \in 1..Len(table) : table[i].by # r

\* A run over three stars that raised on a last link whose page is no number.
C14_Witness ==
    /\ linkMode = "garbled"
    /\ Len(stars) = 3
    /\ run[1].pc = "raised"
    /\ run[1].fault = "metadata"

\* C11: generate_response returns text in both modes: with format_only the
\* rendered document as it is, otherwise the answer text of the provider's
\* chat completion; whenever it returns, the value is a non-empty string.
C11_ReturnsText ==
    gen.pc = "returned" =>
        /\ gen.ret.type = "str"
        /\ gen.format_only =>
              gen.ret.document = gen.repo_context /\ gen.ret.document # <<>>
        /\ ~gen.format_only => gen.ret.assistant # <<>>

\* C15: the POST /ingest handler, called with a non-empty username for a
\* user whose star list has a readable last page, answers 201 with the
\* success result of a run that went to its end with the handler's no-op
\* sink unless an external call failed, and answers 500 only then.
C15_NoOpSink ==
    (/\ http.pc = "responded"
     /\ http.github_username # ""
     /\ ~NoLastPage(LinkHeader)) =>
        /\ ~ExternalFailure(PostRun) =>
              /\ http.status_code = 201
              /\ run[PostRun].result.status = "success"
              /\ CompleteEvents(PostRun) # <<>>
        /\ http.status_code = 500 => ExternalFailure(PostRun)

====
